---- MODULE Spec2Model ----
(***************************************************************************)
(* PhysixArduboy: the per-frame physics step of Game (Physix/Game.h) over  *)
(* the signed 12.3 fixed-point type Number.  A Number is modelled by its   *)
(* 16-bit internal value (value * 8); every arithmetic operator is         *)
(* computed as the fixed-point type computes it (truncating conversions,   *)
(* floor on the >> of a product, wrap at 16 bits).                         *)
(***************************************************************************)
EXTENDS Integers, Sequences, FiniteSets, TLC

(***************************************************************************)
(* Bounds of the model.                                                    *)
(***************************************************************************)
\* Number of start scenarios explored by the physics-only specification.
NumScenarios == 8
\* Number of frames the full game is followed for.
MaxFrames == 3
\* Number of outcomes of the random generator explored per shake.
NumSeeds == 2

\* How many of the sample coordinates and radii the geometry queries draw.
NumSamples == 4

(***************************************************************************)
(* Fixed-point arithmetic: Number = SFixed<12, 3>.                         *)
(***************************************************************************)
FractionSize == 3
Scale == 2 ^ FractionSize
WordModulus == 2 ^ 16
MaxInternal == (WordModulus \div 2) - 1
MinInternal == -(WordModulus \div 2)

\* static_cast<int16_t> of a wider integer: keep the low 16 bits.
Wrap16(n) == ((n - MinInternal) % WordModulus) + MinInternal

\* Number(int16_t): the integer shifted left by the fraction size.
FromInt(n) == Wrap16(n * Scale)

\* Number(double) for a non-negative decimal num/den: value * Scale, truncated.
FromDecimal(num, den) == Wrap16((num * Scale) \div den)

\* Number(integer, fraction): (integer << FractionSize) | fraction.
FromParts(integer, fraction) == Wrap16(integer * Scale + fraction)

\* Number::Epsilon: internal value 1.
Epsilon == 1

\* Mutant of Mul: the product is not scaled back by the fraction bits.
MulUnscaled(a, b) == Wrap16(a * b)

Add(a, b) == Wrap16(a + b)
Neg(a) == Wrap16(-a)
\* operator *: the product in the double-width type, >> FractionSize, narrowed.
Mul(a, b) == Wrap16((a * b) \div Scale)
Abs(a) == IF a < 0 THEN -a ELSE a

(***************************************************************************)
(* Vector2 / Point2 operators (component-wise).                            *)
(***************************************************************************)
Vec(x, y) == [x |-> x, y |-> y]
VecAdd(v, w) == Vec(Add(v.x, w.x), Add(v.y, w.y))
VecNeg(v) == Vec(Neg(v.x), Neg(v.y))
VecScale(v, k) == Vec(Mul(v.x, k), Mul(v.y, k))
\* Point2::operator+=(Vector2)
PointAdd(p, v) == Vec(Add(p.x, v.x), Add(p.y, v.y))

(***************************************************************************)
(* Game constants.                                                         *)
(***************************************************************************)
ScreenWidth == 128
ScreenHeight == 64
BodySize == 8
ObjectCount == 8

coefficientOfFriction == FromDecimal(95, 100)
coefficientOfGravity == FromDecimal(5, 10)
coefficientOfRestitution == FromDecimal(3, 10)
restitutionThreshold == Mul(Epsilon, FromInt(16))
inputForce == FromDecimal(25, 100)

screenLeft == FromInt(0)
screenRight == FromInt(ScreenWidth - BodySize)
screenTop == FromInt(0)
screenBottom == FromInt(ScreenHeight - BodySize)

\* Mutant of RigidBody: the mass is left at zero.
RigidBodyMassless(position, velocity) ==
  [position |-> position, velocity |-> velocity, mass |-> 0]

Indices == 0 .. (ObjectCount - 1)

RigidBody(position, velocity) ==
  [position |-> position, velocity |-> velocity, mass |-> FromInt(1)]

VARIABLES
  objects,              \* RigidBody objects[8]; objects[0] is playerObject
  gravityEnabled,       \* bool gravityEnabled
  gravitationalForce,   \* Vector2 gravitationalForce
  statRenderingEnabled, \* bool statRenderingEnabled
  pc,                   \* position inside loop()
  index,                \* the body the range-for of simulatePhysics is at
  entry,                \* the objects as they were on entry to simulatePhysics
  currentButtonState,   \* buttons held at the last pollButtons()
  previousButtonState,  \* buttons held at the pollButtons() before that
  frame,                \* number of frames started so far
  geometry              \* the operands and result of a geometry query

vars == <<objects, gravityEnabled, gravitationalForce, statRenderingEnabled,
          pc, index, entry, currentButtonState, previousButtonState, frame,
          geometry>>

\* What simulatePhysics and the rendering never touch.
controlVars == <<currentButtonState, previousButtonState, frame, geometry>>

(***************************************************************************)
(* The sub-steps of simulatePhysics for one object, in source order.       *)
(***************************************************************************)
\* Mutant of SimulateGravity: gravity is added whether or not it is enabled.
SimulateGravityAlways(object) ==
  [object EXCEPT !.velocity = VecAdd(@, gravitationalForce)]

\* Simulate gravity: velocity += gravitationalForce when gravity is enabled.
SimulateGravity(object) ==
  IF gravityEnabled
    THEN [object EXCEPT !.velocity = VecAdd(@, gravitationalForce)]
    ELSE object

\* Mutant of SimulateFriction: horizontal friction only, in both modes.
SimulateFrictionHorizontal(object) ==
  [object EXCEPT !.velocity.x = Mul(@, coefficientOfFriction)]

\* Simulate friction: horizontal only under gravity, both components otherwise.
SimulateFriction(object) ==
  IF gravityEnabled
    THEN [object EXCEPT !.velocity.x = Mul(@, coefficientOfFriction)]
    ELSE [object EXCEPT !.velocity = VecScale(@, coefficientOfFriction)]

\* Mutant of BounceLeft: the reversed velocity is also scaled by restitution.
BounceLeftDamped(object) ==
  IF object.position.x < screenLeft
    THEN [object EXCEPT !.position.x = screenLeft,
                        !.velocity.x = Mul(Neg(@), coefficientOfRestitution)]
    ELSE object

\* Off the left side: move to the left side, reverse the horizontal velocity.
\* Mutant of BounceLeft: the object is moved back, its velocity is kept.
BounceLeftKeepsVelocity(object) ==
  IF object.position.x < screenLeft
    THEN [object EXCEPT !.position.x = screenLeft]
    ELSE object

BounceLeft(object) ==
  IF object.position.x < screenLeft
    THEN [object EXCEPT !.position.x = screenLeft, !.velocity.x = Neg(@)]
    ELSE object

\* Mutant of BounceRight: the velocity is reversed, the position is not moved.
BounceRightUnclamped(object) ==
  IF object.position.x > screenRight
    THEN [object EXCEPT !.velocity.x = Neg(@)]
    ELSE object

\* Off the right side: move to the right side, reverse the horizontal velocity.
BounceRight(object) ==
  IF object.position.x > screenRight
    THEN [object EXCEPT !.position.x = screenRight, !.velocity.x = Neg(@)]
    ELSE object

CollideHorizontal(object) == BounceRight(BounceLeft(object))

\* The test of the restitution branch: velocity.y > restitutionThreshold.
FasterThanThreshold(object) == object.velocity.y > restitutionThreshold

\* Mutant of Restitute: the velocity is reversed but not reduced.
RestituteUnscaled(object) ==
  IF FasterThanThreshold(object)
    THEN [object EXCEPT !.velocity.y = Neg(@)]
    ELSE [object EXCEPT !.velocity.y = 0]

\* Mutant of Restitute: no threshold, every collision reverses and reduces.
RestituteAlways(object) ==
  [object EXCEPT !.velocity.y = Mul(Neg(@), coefficientOfRestitution)]

\* Gravity enabled, object at a vertical bound: reverse and reduce the vertical
\* velocity when it exceeds the threshold, otherwise bring it to a halt.
Restitute(object) ==
  IF FasterThanThreshold(object)
    THEN [object EXCEPT !.velocity.y = Mul(Neg(@), coefficientOfRestitution)]
    ELSE [object EXCEPT !.velocity.y = 0]

OffTop(object) == object.position.y < screenTop
OffBottom(object) == object.position.y > screenBottom

RestituteTop(object) ==
  IF OffTop(object)
    THEN Restitute([object EXCEPT !.position.y = screenTop])
    ELSE object

RestituteBottom(object) ==
  IF OffBottom(object)
    THEN Restitute([object EXCEPT !.position.y = screenBottom])
    ELSE object

BounceTop(object) ==
  IF OffTop(object)
    THEN [object EXCEPT !.position.y = screenTop, !.velocity.y = Neg(@)]
    ELSE object

\* Mutant of BounceBottom: the velocity is reversed, the position is not moved.
BounceBottomUnclamped(object) ==
  IF OffBottom(object)
    THEN [object EXCEPT !.velocity.y = Neg(@)]
    ELSE object

BounceBottom(object) ==
  IF OffBottom(object)
    THEN [object EXCEPT !.position.y = screenBottom, !.velocity.y = Neg(@)]
    ELSE object

CollideVertical(object) ==
  IF gravityEnabled
    THEN RestituteBottom(RestituteTop(object))
    ELSE BounceBottom(BounceTop(object))

\* Finally: position += velocity.
UpdatePosition(object) ==
  [object EXCEPT !.position = PointAdd(@, object.velocity)]

(***************************************************************************)
(* Start states of the physics-only specification: every object at an      *)
(* integer on-screen position (what randomiseObjects assigns) with a       *)
(* velocity accumulated from earlier shakes and forces.                    *)
(***************************************************************************)
StartPositions ==
  << <<0, 0>>, <<64, 32>>, <<127, 63>>, <<120, 56>>,
     <<10, 55>>, <<0, 56>>, <<127, 0>>, <<60, 1>> >>

StartVelocities ==
  << <<8, 8>>, <<0, 0>>, <<-8, -40>>, <<24, 24>>, <<-3, 40>>,
     <<40, -8>>, <<0, 24>>, <<-24, 0>>, <<5, -20>>, <<-40, 17>> >>

StartBody(scenario, i) ==
  LET p == StartPositions[i + 1]
      v == StartVelocities[((i + scenario) % Len(StartVelocities)) + 1]
  IN RigidBody(Vec(FromInt(p[1]), FromInt(p[2])), Vec(v[1], v[2]))

InitialGravity == Vec(0, coefficientOfGravity)

\* No geometry query in progress.
NoQuery == [stage |-> "none"]

PhysicsInit ==
  /\ \E scenario \in 0 .. (NumScenarios - 1) :
       objects = [i \in Indices |-> StartBody(scenario, i)]
  /\ gravityEnabled \in BOOLEAN
  /\ gravitationalForce \in {InitialGravity, VecNeg(InitialGravity)}
  /\ statRenderingEnabled = TRUE
  /\ pc = "updateInput"
  /\ index = 0
  /\ entry = objects
  /\ currentButtonState = {}
  /\ previousButtonState = {}
  /\ frame = 0
  /\ geometry = NoQuery

(***************************************************************************)
(* loop(): updateInput, then simulatePhysics object by object, then render.*)
(***************************************************************************)
\* updateInput() with no button held or pressed: playerForce stays (0, 0),
\* so playerObject.velocity += playerForce leaves the velocity as it is.
UpdateInputIdle ==
  /\ pc = "updateInput"
  /\ objects' = [objects EXCEPT ![0].velocity = VecAdd(@, Vec(0, 0))]
  /\ entry' = objects'
  /\ pc' = "gravity"
  /\ index' = 0
  /\ UNCHANGED <<gravityEnabled, gravitationalForce, statRenderingEnabled>>
  /\ UNCHANGED controlVars

\* Mutant of GravityStep: the gravity of one body's iteration is applied to
\* every body.
GravityStepAll ==
  /\ pc = "gravity"
  /\ objects' = [i \in Indices |-> SimulateGravity(objects[i])]
  /\ pc' = "friction"
  /\ UNCHANGED <<gravityEnabled, gravitationalForce, statRenderingEnabled,
                 index, entry>>
  /\ UNCHANGED controlVars

GravityStep ==
  /\ pc = "gravity"
  /\ objects' = [objects EXCEPT ![index] = SimulateGravity(@)]
  /\ pc' = "friction"
  /\ UNCHANGED <<gravityEnabled, gravitationalForce, statRenderingEnabled,
                 index, entry>>
  /\ UNCHANGED controlVars

FrictionStep ==
  /\ pc = "friction"
  /\ objects' = [objects EXCEPT ![index] = SimulateFriction(@)]
  /\ pc' = "horizontal"
  /\ UNCHANGED <<gravityEnabled, gravitationalForce, statRenderingEnabled,
                 index, entry>>
  /\ UNCHANGED controlVars

HorizontalStep ==
  /\ pc = "horizontal"
  /\ objects' = [objects EXCEPT ![index] = CollideHorizontal(@)]
  /\ pc' = "vertical"
  /\ UNCHANGED <<gravityEnabled, gravitationalForce, statRenderingEnabled,
                 index, entry>>
  /\ UNCHANGED controlVars

VerticalStep ==
  /\ pc = "vertical"
  /\ objects' = [objects EXCEPT ![index] = CollideVertical(@)]
  /\ pc' = "integrate"
  /\ UNCHANGED <<gravityEnabled, gravitationalForce, statRenderingEnabled,
                 index, entry>>
  /\ UNCHANGED controlVars

IntegrateStep ==
  /\ pc = "integrate"
  /\ objects' = [objects EXCEPT ![index] = UpdatePosition(@)]
  /\ IF index < ObjectCount - 1
       THEN pc' = "gravity" /\ index' = index + 1
       ELSE pc' = "render" /\ index' = 0
  /\ UNCHANGED <<gravityEnabled, gravitationalForce, statRenderingEnabled,
                 entry>>
  /\ UNCHANGED controlVars

\* clear, renderObjects, renderDisplay, display: read-only on the game state.
Render ==
  /\ pc = "render"
  /\ pc' = "updateInput"
  /\ UNCHANGED <<objects, gravityEnabled, gravitationalForce,
                 statRenderingEnabled, index, entry>>
  /\ UNCHANGED controlVars

SimulatePhysics ==
  \/ GravityStep
  \/ FrictionStep
  \/ HorizontalStep
  \/ VerticalStep
  \/ IntegrateStep

PhysicsNext == UpdateInputIdle \/ SimulatePhysics \/ Render

PhysicsSpec == PhysicsInit /\ [][PhysicsNext]_vars

\* loop() is called forever and nextFrame() is true once per frame period.
FairPhysicsSpec == PhysicsSpec /\ WF_vars(PhysicsNext)

(***************************************************************************)
(* The whole game: setup(), then loop() with updateInput() reacting to the *)
(* buttons polled for the frame.                                           *)
(***************************************************************************)
\* The button states pollButtons() is followed through.
InputSnapshots ==
  { {}, {"B", "A"}, {"B", "DOWN", "UP"}, {"B", "DOWN"},
    {"LEFT", "RIGHT", "DOWN"}, {"A", "RIGHT"}, {"B", "LEFT", "RIGHT"},
    {"UP"}, {"B", "UP"} }

Polled(current, previous) == [current |-> current, previous |-> previous]

\* arduboy.pressed(button)
Pressed(buttons, button) == button \in buttons.current

\* arduboy.justPressed(button): held now, not held at the previous poll.
JustPressed(buttons, button) ==
  button \in buttons.current /\ button \notin buttons.previous

\* The values random() returns in one call of randomiseObjects, per object:
\* a position in [0, width) x [0, height) and, for each axis, an integer part
\* in [-8, 8) and a fraction in [0, 1 << FractionSize).
RandomPositions == << <<0, 0>>, <<127, 63>>, <<64, 56>>, <<120, 1>> >>
RandomOffsets == << <<-8, 0>>, <<7, 7>>, <<0, 3>>, <<-1, 7>> >>

RandomPosition(seed, i) ==
  LET p == RandomPositions[((i + seed) % Len(RandomPositions)) + 1]
  IN Vec(FromInt(p[1]), FromInt(p[2]))

RandomOffsetX(seed, i) ==
  LET o == RandomOffsets[((i + seed) % Len(RandomOffsets)) + 1]
  IN FromParts(o[1], o[2])

RandomOffsetY(seed, i) ==
  LET o == RandomOffsets[((3 * i + seed + 1) % Len(RandomOffsets)) + 1]
  IN FromParts(o[1], o[2])

\* Mutant of RandomiseObjects: the full velocity is adjusted also under
\* gravity.
RandomiseObjectsBothAxes(objs, enabled, seed) ==
  [i \in Indices |->
     [objs[i] EXCEPT
        !.position = RandomPosition(seed, i),
        !.velocity = VecAdd(@, Vec(RandomOffsetX(seed, i),
                                   RandomOffsetY(seed, i)))]]

\* randomiseObjects(): a new position for every object; the vertical velocity
\* is adjusted under gravity, the full velocity otherwise.
RandomiseObjects(objs, enabled, seed) ==
  [i \in Indices |->
     [objs[i] EXCEPT
        !.position = RandomPosition(seed, i),
        !.velocity =
          IF enabled
            THEN VecAdd(@, Vec(0, RandomOffsetY(seed, i)))
            ELSE VecAdd(@, Vec(RandomOffsetX(seed, i),
                               RandomOffsetY(seed, i)))]]

\* Down with B held: toggle gravity on or off.
ToggleGravity(enabled, buttons) ==
  IF JustPressed(buttons, "DOWN") THEN ~enabled ELSE enabled

\* Mutant of InvertGravity: gravity is pointed upward instead of negated.
InvertGravityUpward(force, buttons) ==
  IF JustPressed(buttons, "UP")
    THEN Vec(0, Neg(coefficientOfGravity))
    ELSE force

\* Up with B held: invert gravity.
InvertGravity(force, buttons) ==
  IF JustPressed(buttons, "UP") THEN VecNeg(force) ELSE force

\* Left with B held: toggle the diagnostics.
ToggleStatRendering(enabled, buttons) ==
  IF JustPressed(buttons, "LEFT") THEN ~enabled ELSE enabled

\* Mutant of PlayerForce: each held direction assigns its force instead of
\* adding it, so the direction tested last wins.
PlayerForceLastWins(buttons) ==
  Vec(IF Pressed(buttons, "RIGHT") THEN inputForce
        ELSE IF Pressed(buttons, "LEFT") THEN Neg(inputForce) ELSE 0,
      IF Pressed(buttons, "DOWN") THEN inputForce
        ELSE IF Pressed(buttons, "UP") THEN Neg(inputForce) ELSE 0)

\* The force of the held directions, accumulated in source order.
PlayerForce(buttons) ==
  LET left == IF Pressed(buttons, "LEFT") THEN Neg(inputForce) ELSE 0
      right == IF Pressed(buttons, "RIGHT") THEN inputForce ELSE 0
      up == IF Pressed(buttons, "UP") THEN Neg(inputForce) ELSE 0
      down == IF Pressed(buttons, "DOWN") THEN inputForce ELSE 0
  IN Vec(Add(Add(0, left), right), Add(Add(0, up), down))

\* Mutant of ControlPlayer: the force is added to the position.
ControlPlayerPosition(player, buttons) ==
  LET pushed == [player EXCEPT !.position = PointAdd(@, PlayerForce(buttons))]
  IN IF JustPressed(buttons, "A")
       THEN [pushed EXCEPT !.velocity = Vec(0, 0)]
       ELSE pushed

\* Mutant of ControlPlayer: the emergency stop comes before the force.
ControlPlayerStopFirst(player, buttons) ==
  LET stopped == IF JustPressed(buttons, "A")
                   THEN [player EXCEPT !.velocity = Vec(0, 0)]
                   ELSE player
  IN [stopped EXCEPT !.velocity = VecAdd(@, PlayerForce(buttons))]

\* Mutant of ControlPlayer: playerObject is a copy, objects[0] is not written.
ControlPlayerCopy(player, buttons) == player

\* B not held: the force is added to the player's velocity; A just pressed
\* then zeroes the velocity (emergency stop).
ControlPlayer(player, buttons) ==
  LET pushed == [player EXCEPT !.velocity = VecAdd(@, PlayerForce(buttons))]
  IN IF JustPressed(buttons, "A")
       THEN [pushed EXCEPT !.velocity = Vec(0, 0)]
       ELSE pushed

\* setup(): randomiseObjects() on the default-constructed objects, then the
\* player's object is moved to the centre of the screen with zero velocity.
centreScreen == Vec(FromInt(ScreenWidth \div 2), FromInt(ScreenHeight \div 2))

SetupObjects(seed) ==
  LET fresh == [i \in Indices |-> RigidBody(Vec(0, 0), Vec(0, 0))]
      shaken == RandomiseObjects(fresh, FALSE, seed)
  IN [shaken EXCEPT ![0].position = centreScreen, ![0].velocity = Vec(0, 0)]

Init ==
  /\ \E seed \in 0 .. (NumSeeds - 1) : objects = SetupObjects(seed)
  /\ gravityEnabled = FALSE
  /\ gravitationalForce = InitialGravity
  /\ statRenderingEnabled = TRUE
  /\ pc = "updateInput"
  /\ index = 0
  /\ entry = objects
  /\ currentButtonState = {}
  /\ previousButtonState = {}
  /\ frame = 0
  /\ geometry = NoQuery

\* pollButtons() and updateInput() of one frame.
UpdateInput ==
  /\ pc = "updateInput"
  /\ frame < MaxFrames
  /\ \E snapshot \in InputSnapshots :
       LET buttons == Polled(snapshot, currentButtonState)
           shake == Pressed(buttons, "B") /\ JustPressed(buttons, "A")
       IN /\ currentButtonState' = snapshot
          /\ previousButtonState' = currentButtonState
          /\ IF Pressed(buttons, "B")
               THEN /\ \E seed \in (IF shake THEN 0 .. (NumSeeds - 1) ELSE {0}) :
                         objects' = IF shake
                                      THEN RandomiseObjects(objects,
                                                            gravityEnabled, seed)
                                      ELSE objects
                    /\ gravityEnabled' = ToggleGravity(gravityEnabled, buttons)
                    /\ gravitationalForce' =
                         InvertGravity(gravitationalForce, buttons)
                    /\ statRenderingEnabled' =
                         ToggleStatRendering(statRenderingEnabled, buttons)
               ELSE /\ objects' =
                         [objects EXCEPT ![0] = ControlPlayer(@, buttons)]
                    /\ UNCHANGED <<gravityEnabled, gravitationalForce,
                                   statRenderingEnabled>>
  /\ entry' = objects'
  /\ pc' = "gravity"
  /\ index' = 0
  /\ frame' = frame + 1
  /\ UNCHANGED geometry

Next == UpdateInput \/ SimulatePhysics \/ Render

Spec == Init /\ [][Next]_vars

PhysicsPhases == {"gravity", "friction", "horizontal", "vertical", "integrate"}

TypeOK ==
  /\ objects \in [Indices -> [position : [x : MinInternal .. MaxInternal,
                                          y : MinInternal .. MaxInternal],
                              velocity : [x : MinInternal .. MaxInternal,
                                          y : MinInternal .. MaxInternal],
                              mass : {FromInt(1)}]]
  /\ gravityEnabled \in BOOLEAN
  /\ pc \in PhysicsPhases \cup {"updateInput", "render"}
  /\ index \in Indices

\* Object i has been through all five sub-steps of the current tick.
Done(i) == pc = "render" \/ (pc \in PhysicsPhases /\ i < index)

(***************************************************************************)
(* Properties of the simulation step.                                      *)
(***************************************************************************)
OnScreenX(object) ==
  screenLeft <= object.position.x /\ object.position.x <= screenRight

OnScreenY(object) ==
  screenTop <= object.position.y /\ object.position.y <= screenBottom

\* The vertical velocity at the collision test: the entry velocity plus gravity.
IncomingY(object) == Add(object.velocity.y, gravitationalForce.y)

\* C1: right after the horizontal boundary sub-step the object's position.x
\* lies in [left, right], in both gravity modes, whatever it was before.
C1_HorizontalClamp ==
  pc = "vertical" => OnScreenX(objects[index])

C1_Witness ==
  /\ pc = "vertical"
  /\ entry[index].position.x > screenRight
  /\ objects[index].position.x = screenRight

\* C2 as stated: with gravity disabled, after all five sub-steps of a tick
\* (the final position += velocity included) position.y lies in [top, bottom].
C2_AfterFullTick ==
  \A i \in Indices : (~gravityEnabled /\ Done(i)) => OnScreenY(objects[i])

\* C2 amended: with gravity disabled, after the vertical boundary sub-step
\* (before position += velocity) position.y lies in [top, bottom].
C2_AfterVerticalStep ==
  (~gravityEnabled /\ pc = "integrate") => OnScreenY(objects[index])

C2_Witness ==
  /\ ~gravityEnabled
  /\ pc = "integrate"
  /\ OffBottom(entry[index])
  /\ objects[index].position.y = screenBottom

\* C3: with gravity enabled, an object clamped at a vertical bound with an
\* incoming vertical speed |velocity.y| above restitutionThreshold leaves the
\* collision sub-step with velocity.y = -incoming * restitution, both when it
\* hits the top bound moving upward and when it hits the bottom bound moving
\* downward.
C3_RestitutionBothBounds ==
  [][ LET object == objects[index]
      IN (/\ pc = "vertical"
          /\ gravityEnabled
          /\ Abs(object.velocity.y) > restitutionThreshold
          /\ \/ OffTop(object) /\ object.velocity.y < 0
             \/ OffBottom(object) /\ object.velocity.y > 0)
         => objects'[index].velocity.y =
              Mul(Neg(object.velocity.y), coefficientOfRestitution) ]_vars

\* C4: with gravity enabled, an object that starts a tick exactly at the
\* bottom bound with incoming vertical speed (towards the bound) at most
\* restitutionThreshold has velocity.y = 0 at the end of that tick.
C4_RestingAtBottomStops ==
  \A i \in Indices :
    (/\ gravityEnabled
     /\ Done(i)
     /\ entry[i].position.y = screenBottom
     /\ IncomingY(entry[i]) >= 0
     /\ IncomingY(entry[i]) <= restitutionThreshold)
    => objects[i].velocity.y = 0

\* The start of scenario B: just inside the bottom bound (within one pixel),
\* moving down faster than the threshold, far enough to pass the bound.
CrossingBottom(object) ==
  /\ object.position.y < screenBottom
  /\ object.position.y >= screenBottom - Scale
  /\ object.velocity.y > restitutionThreshold
  /\ object.position.y + object.velocity.y > screenBottom

\* C5 as stated: with gravity enabled such an object is clamped to the bottom
\* and has velocity.y = -(starting velocity.y) * restitution after that tick.
C5_HandledInSameTick ==
  \A i \in Indices :
    (gravityEnabled /\ Done(i) /\ CrossingBottom(entry[i]))
    => /\ objects[i].position.y = screenBottom
       /\ objects[i].velocity.y =
            Mul(Neg(entry[i].velocity.y), coefficientOfRestitution)

\* C5 amended: the crossing tick only integrates (velocity.y = start + gravity,
\* position.y = start + that velocity); an object that starts a tick below the
\* bottom bound with velocity.y + gravity above the threshold ends that tick
\* with velocity.y = -(velocity.y + gravity) * restitution and
\* position.y = bottom + that velocity.
C5_HandledInNextTick ==
  \A i \in Indices :
    (gravityEnabled /\ Done(i)) =>
      /\ (CrossingBottom(entry[i]) /\ gravitationalForce.y > 0)
         => /\ objects[i].velocity.y = IncomingY(entry[i])
            /\ objects[i].position.y =
                 Add(entry[i].position.y, IncomingY(entry[i]))
            /\ OffBottom(objects[i])
      /\ (OffBottom(entry[i]) /\ IncomingY(entry[i]) > restitutionThreshold)
         => /\ objects[i].velocity.y =
                 Mul(Neg(IncomingY(entry[i])), coefficientOfRestitution)
            /\ objects[i].position.y = Add(screenBottom, objects[i].velocity.y)

\* Scenario B one tick later: the object that started at bottom - 1 pixel with
\* velocity.y = 3.0 entered this tick at bottom + 2.5 pixels with 3.5 and has
\* been bounced back with -(3.5 + 0.5) * 0.25 = -1.0.
C5_Witness ==
  \E i \in Indices :
    /\ gravityEnabled
    /\ Done(i)
    /\ entry[i].position.y = FromInt(ScreenHeight - BodySize - 1) + 28
    /\ entry[i].velocity.y = 28
    /\ objects[i].velocity.y = -Scale
    /\ objects[i].position.y = screenBottom - Scale

\* The vertical sub-step is at a collision: the object is off the top or the
\* bottom of the screen.
AtVerticalCollision ==
  pc = "vertical" /\ (OffTop(objects[index]) \/ OffBottom(objects[index]))

\* C6: with gravity enabled and no input, from some tick on the restitution
\* branch is never taken again: every later vertical collision sets
\* velocity.y to 0.
C6_BouncingTerminates ==
  <>[][(gravityEnabled /\ AtVerticalCollision)
       => objects'[index].velocity.y = 0]_vars

\* A vertical collision about to take the restitution branch.
C6_Witness ==
  /\ gravityEnabled
  /\ AtVerticalCollision
  /\ OffBottom(objects[index])
  /\ FasterThanThreshold(objects[index])

\* C7: with gravity enabled and no input, from some tick on every object ends
\* every tick with velocity.y = 0 and an unchanged position.y.
C7_EventualRest ==
  <>[]((gravityEnabled /\ pc = "render")
       => \A i \in Indices :
            /\ objects[i].velocity.y = 0
            /\ objects[i].position.y = entry[i].position.y)

\* C8: with gravity disabled, an object that starts a tick on screen ends it
\* with velocity = velocity * friction on both components, without a change
\* of sign, and position = position + the new velocity.
C8_FrictionThenIntegrate ==
  \A i \in Indices :
    (~gravityEnabled /\ Done(i) /\ OnScreenX(entry[i]) /\ OnScreenY(entry[i]))
    => LET old == entry[i].velocity
           new == objects[i].velocity
       IN /\ new = VecScale(old, coefficientOfFriction)
          /\ objects[i].position = PointAdd(entry[i].position, new)
          /\ old.x >= 0 => new.x >= 0
          /\ old.x <= 0 => new.x <= 0
          /\ old.y >= 0 => new.y >= 0
          /\ old.y <= 0 => new.y <= 0

\* Scenario A: the object at (0, 0) with velocity (1, 1) ends the tick at the
\* position equal to its new velocity.
C8_Witness ==
  /\ ~gravityEnabled
  /\ Done(0)
  /\ entry[0].position = Vec(0, 0)
  /\ entry[0].velocity = Vec(FromInt(1), FromInt(1))
  /\ objects[0].position = objects[0].velocity
  /\ objects[0].velocity = Vec(7, 7)

\* C9: after the gravity and friction sub-steps: with gravity enabled
\* velocity.y = old velocity.y + gravity.y (no friction) and
\* velocity.x = (old velocity.x + gravity.x) * friction; with gravity disabled
\* no gravity is added and both components are multiplied by friction.
C9_GravityAndFriction ==
  pc = "horizontal" =>
    LET old == entry[index].velocity
        new == objects[index].velocity
    IN /\ gravityEnabled =>
            /\ new.y = Add(old.y, gravitationalForce.y)
            /\ new.x = Mul(Add(old.x, gravitationalForce.x),
                           coefficientOfFriction)
       /\ ~gravityEnabled =>
            /\ new.x = Mul(old.x, coefficientOfFriction)
            /\ new.y = Mul(old.y, coefficientOfFriction)
       /\ objects[index].position = entry[index].position

C9_Witness ==
  /\ pc = "horizontal"
  /\ gravityEnabled
  /\ entry[index].velocity.y > FromInt(1)
  /\ objects[index].velocity.y = entry[index].velocity.y + coefficientOfGravity
  /\ objects[index].velocity.x # entry[index].velocity.x

\* C10: a horizontal collision in either gravity mode, and a vertical
\* collision with gravity disabled, replace the colliding velocity component
\* by its exact negation: same magnitude, no scaling, no zeroing.
C10_ElasticWalls ==
  [][ LET object == objects[index]
          after == objects'[index]
      IN /\ (pc = "horizontal" /\ ~OnScreenX(object))
            => /\ after.velocity.x = Neg(object.velocity.x)
               /\ Abs(after.velocity.x) = Abs(object.velocity.x)
         /\ (~gravityEnabled /\ AtVerticalCollision)
            => /\ after.velocity.y = Neg(object.velocity.y)
               /\ Abs(after.velocity.y) = Abs(object.velocity.y) ]_vars

\* A vertical bounce off the top with gravity disabled has happened.
C10_Witness ==
  /\ ~gravityEnabled
  /\ pc = "integrate"
  /\ OffTop(entry[index])
  /\ entry[index].velocity.y < -Scale
  /\ objects[index].velocity.y > 0

(***************************************************************************)
(* Properties of the controller.                                           *)
(***************************************************************************)
\* The buttons as polled by the updateInput step being taken.
PolledNow == Polled(currentButtonState', previousButtonState')

\* 1 for a held button, 0 otherwise.
Held(buttons, button) == IF Pressed(buttons, button) THEN 1 ELSE 0

\* C11: a gravity toggle (B held, Down just pressed) flips gravityEnabled and
\* a second one restores it; a gravity inversion (B held, Up just pressed)
\* gives the exact component-wise negation of gravitationalForce and a
\* second one restores the original vector.
C11_TogglesAreInvolutions ==
  [][ (pc = "updateInput" /\ Pressed(PolledNow, "B")) =>
        /\ JustPressed(PolledNow, "DOWN") =>
             /\ gravityEnabled' = ~gravityEnabled
             /\ ToggleGravity(gravityEnabled', PolledNow) = gravityEnabled
        /\ JustPressed(PolledNow, "UP") =>
             /\ gravitationalForce'.x = 0 - gravitationalForce.x
             /\ gravitationalForce'.y = 0 - gravitationalForce.y
             /\ InvertGravity(gravitationalForce', PolledNow)
                  = gravitationalForce ]_vars

\* The second toggle and the second inversion have just been made: both
\* values are back at what setup left.
C11_Witness ==
  /\ pc = "gravity"
  /\ frame = 3
  /\ currentButtonState = {"B", "DOWN", "UP"}
  /\ previousButtonState = {}
  /\ gravityEnabled = FALSE
  /\ gravitationalForce = InitialGravity

\* C12: with B not held updateInput changes nothing but objects[0].velocity;
\* with B held and A not just pressed it changes no position and no velocity.
C12_ExclusiveModes ==
  [][ pc = "updateInput" =>
        /\ ~Pressed(PolledNow, "B") =>
             /\ UNCHANGED <<gravityEnabled, gravitationalForce,
                            statRenderingEnabled>>
             /\ \A i \in Indices :
                  /\ objects'[i].position = objects[i].position
                  /\ i # 0 => objects'[i].velocity = objects[i].velocity
        /\ (Pressed(PolledNow, "B") /\ ~JustPressed(PolledNow, "A")) =>
             \A i \in Indices :
               /\ objects'[i].position = objects[i].position
               /\ objects'[i].velocity = objects[i].velocity ]_vars

\* B held with Left and Right in the first frame: the diagnostics are toggled
\* and the player, at rest since setup, has received no force.
C12_Witness ==
  /\ pc = "gravity"
  /\ frame = 1
  /\ currentButtonState = {"B", "LEFT", "RIGHT"}
  /\ ~statRenderingEnabled
  /\ objects[0].velocity = Vec(0, 0)
  /\ objects[0].position = centreScreen

\* C13: with B not held and A not just pressed updateInput adds
\* (inputForce * (right - left), inputForce * (down - up)) to the player's
\* velocity, each held flag counting 0 or 1.
C13_DirectionalForce ==
  [][ (/\ pc = "updateInput"
       /\ ~Pressed(PolledNow, "B")
       /\ ~JustPressed(PolledNow, "A")) =>
        /\ objects'[0].velocity.x =
             Wrap16(objects[0].velocity.x + inputForce *
                      (Held(PolledNow, "RIGHT") - Held(PolledNow, "LEFT")))
        /\ objects'[0].velocity.y =
             Wrap16(objects[0].velocity.y + inputForce *
                      (Held(PolledNow, "DOWN") - Held(PolledNow, "UP"))) ]_vars

\* Left, Right and Down held in the first frame: the horizontal forces cancel
\* and the player, at rest since setup, moves down with inputForce.
C13_Witness ==
  /\ pc = "gravity"
  /\ frame = 1
  /\ currentButtonState = {"LEFT", "RIGHT", "DOWN"}
  /\ objects[0].velocity = Vec(0, inputForce)

\* C14: with B not held and A just pressed the player's velocity is (0, 0)
\* after updateInput, whatever it was and whichever directions are held.
C14_EmergencyStop ==
  [][ (/\ pc = "updateInput"
       /\ ~Pressed(PolledNow, "B")
       /\ JustPressed(PolledNow, "A")) =>
        objects'[0].velocity = Vec(0, 0) ]_vars

\* The player was pushed down in the frame before and is stopped with Right
\* held.
C14_Witness ==
  /\ pc = "gravity"
  /\ previousButtonState = {"LEFT", "RIGHT", "DOWN"}
  /\ currentButtonState = {"A", "RIGHT"}
  /\ objects[0].velocity = Vec(0, 0)
  /\ objects[0].position.y > centreScreen.y

\* One body's whole iteration of the simulation step.
SimulateBody(object) ==
  UpdatePosition(CollideVertical(CollideHorizontal(
    SimulateFriction(SimulateGravity(object)))))

\* C15: updateInput is followed at once by the simulation step of the same
\* tick, which starts from the objects the controller wrote (the player
\* force arrives in objects[0]) and, for every body, runs its gravity,
\* friction, collision and position advance with the gravityEnabled and
\* gravitationalForce the controller left.
C15_ControllerBeforeStep ==
  /\ [][ pc = "updateInput" =>
           /\ pc' = "gravity"
           /\ entry' = objects'
           /\ (Pressed(PolledNow, "B") /\ JustPressed(PolledNow, "DOWN")) =>
                gravityEnabled' = ~gravityEnabled
           /\ (Pressed(PolledNow, "B") /\ JustPressed(PolledNow, "UP")) =>
                gravitationalForce' = VecNeg(gravitationalForce)
           /\ (~Pressed(PolledNow, "B") /\ ~JustPressed(PolledNow, "A")) =>
                objects'[0].velocity =
                  VecAdd(objects[0].velocity, PlayerForce(PolledNow)) ]_vars
  /\ [](\A i \in Indices : Done(i) => objects[i] = SimulateBody(entry[i]))

\* Gravity was switched on and inverted in the first frame, and a body that
\* met no bound has already been pulled upward in that frame.
C15_Witness ==
  /\ pc = "render"
  /\ frame = 1
  /\ currentButtonState = {"B", "DOWN", "UP"}
  /\ gravityEnabled
  /\ \E i \in Indices :
       /\ OnScreenY(entry[i])
       /\ objects[i].velocity.y =
            entry[i].velocity.y - coefficientOfGravity
       /\ objects[i].position.y = entry[i].position.y + objects[i].velocity.y

\* C16: a step of the simulation writes the body of the current iteration
\* only, and none of gravityEnabled, gravitationalForce and
\* statRenderingEnabled; two bodies that enter a tick with the same position
\* and velocity leave it with the same position and velocity, whatever the
\* other bodies are and wherever they stand in the array.
C16_BodiesDoNotInteract ==
  /\ [][ (pc \in PhysicsPhases) =>
           /\ gravityEnabled' = gravityEnabled
           /\ gravitationalForce' = gravitationalForce
           /\ statRenderingEnabled' = statRenderingEnabled
           /\ \A j \in Indices :
                j # index => objects'[j] = objects[j] ]_vars
  /\ [](\A i, j \in Indices :
          (Done(i) /\ Done(j) /\ entry[i] = entry[j])
            => objects[i] = objects[j])

\* Bodies 1 and 5 entered the tick in the same state among different
\* neighbours, and both have moved to the same new state.
C16_Witness ==
  /\ pc = "render"
  /\ gravityEnabled
  /\ entry[1] = entry[5]
  /\ entry[2] # entry[1]
  /\ entry[0] # entry[4]
  /\ objects[1] = objects[5]
  /\ objects[1] # entry[1]

\* Half of the representable range: two values inside it add without
\* wrapping.
HeadRoom == MaxInternal \div 2

\* Both components of a point or vector lie inside the head room.
InHeadRoom(v) ==
  /\ -HeadRoom <= v.x /\ v.x <= HeadRoom
  /\ -HeadRoom <= v.y /\ v.y <= HeadRoom

Sub(a, b) == Wrap16(a - b)

\* NumberU * NumberU: 32-bit product, shifted, narrowed to 16 bits.
MulU(a, b) == ((a * b) \div Scale) % WordModulus

\* The bits of a Number read as a NumberU.
fromSigned(value) == value % WordModulus

\* square<Number>: value * value.
square(value) == Mul(value, value)

distanceSquared(firstPoint, secondPoint) ==
  fromSigned(Add(square(Sub(firstPoint.x, secondPoint.x)),
                 square(Sub(firstPoint.y, secondPoint.y))))

Circle(position, radius) == [position |-> position, radius |-> radius]

getRadiusSquared(circle) == MulU(circle.radius, circle.radius)

intersects(circle, point) ==
  distanceSquared(circle.position, point) <= getRadiusSquared(circle)

\* Mutant of contains: the boundary is closed.
containsClosed(circle, point) ==
  distanceSquared(circle.position, point) <= getRadiusSquared(circle)

contains(circle, point) ==
  distanceSquared(circle.position, point) < getRadiusSquared(circle)

\* Sample pixel coordinates on the screen and sample radii (internal
\* values: 5.0, 0, 13.0, 64.0, 0.125, 90.5), the first NumSamples of each
\* being used.
SampleXs == <<0, 127, 3, 64, 5, 90, 91, 60>>
SampleYs == <<0, 63, 4, 12, 1, 45, 33, 8>>
SampleRadii == <<40, 0, 104, 512, 1, 724, 8, 1016>>

Samples(values) ==
  { values[k] : k \in 1 .. (IF NumSamples < Len(values)
                              THEN NumSamples ELSE Len(values)) }

SamplePoints ==
  { Vec(FromInt(x), FromInt(y)) : x \in Samples(SampleXs),
                                  y \in Samples(SampleYs) }

\* A query is two on-screen points and a radius; the game is as setup left
\* it.
GeometryInit ==
  /\ objects = SetupObjects(0)
  /\ gravityEnabled = FALSE
  /\ gravitationalForce = InitialGravity
  /\ statRenderingEnabled = TRUE
  /\ pc = "updateInput"
  /\ index = 0
  /\ entry = objects
  /\ currentButtonState = {}
  /\ previousButtonState = {}
  /\ frame = 0
  /\ \E first \in SamplePoints, second \in SamplePoints,
        radius \in Samples(SampleRadii) :
       geometry = [stage |-> "query", first |-> first, second |-> second,
                   radius |-> radius]

\* distanceSquared(first, second) is evaluated.
MeasureDistance ==
  /\ geometry.stage = "query"
  /\ geometry' = [stage |-> "measured",
                  first |-> geometry.first, second |-> geometry.second,
                  radius |-> geometry.radius,
                  distance |-> distanceSquared(geometry.first,
                                               geometry.second)]
  /\ UNCHANGED <<objects, gravityEnabled, gravitationalForce,
                 statRenderingEnabled, pc, index, entry,
                 currentButtonState, previousButtonState, frame>>

\* The circle around first is tested against the point second.
TestPoint ==
  /\ geometry.stage = "measured"
  /\ LET circle == Circle(geometry.first, geometry.radius)
     IN geometry' = [stage |-> "tested",
                     first |-> geometry.first, second |-> geometry.second,
                     radius |-> geometry.radius,
                     distance |-> geometry.distance,
                     intersects |-> intersects(circle, geometry.second),
                     contains |-> contains(circle, geometry.second)]
  /\ UNCHANGED <<objects, gravityEnabled, gravitationalForce,
                 statRenderingEnabled, pc, index, entry,
                 currentButtonState, previousButtonState, frame>>

GeometryNext == MeasureDistance \/ TestPoint

GeometrySpec == GeometryInit /\ [][GeometryNext]_vars

\* (ax - bx)^2 + (ay - by)^2 as an internal value of a 3-bit fraction.
ExactDistanceSquared(a, b) ==
  ((a.x - b.x) * (a.x - b.x) + (a.y - b.y) * (a.y - b.y)) \div Scale

\* C18: for on-screen points distanceSquared returns exactly
\* (ax - bx)^2 + (ay - by)^2.
C18_DistanceSquaredExact ==
  geometry.stage = "measured" =>
    geometry.distance = ExactDistanceSquared(geometry.first, geometry.second)

\* C19: contains(p) implies intersects(p), and a point whose squared
\* distance equals the radius squared intersects the circle and is not
\* contained in it.
C19_ClosedAndOpenBoundary ==
  geometry.stage = "tested" =>
    /\ geometry.contains => geometry.intersects
    /\ geometry.distance = getRadiusSquared(Circle(geometry.first,
                                                   geometry.radius))
         => (geometry.intersects /\ ~geometry.contains)
    /\ geometry.intersects <=>
         geometry.distance <= MulU(geometry.radius, geometry.radius)
    /\ geometry.contains <=>
         geometry.distance < MulU(geometry.radius, geometry.radius)

\* The point (3, 4) lies exactly on the circle of radius 5 around (0, 0).
C19_Witness ==
  /\ geometry.stage = "tested"
  /\ geometry.first = Vec(0, 0)
  /\ geometry.second = Vec(FromInt(3), FromInt(4))
  /\ geometry.radius = FromInt(5)
  /\ geometry.distance = FromInt(25)
  /\ geometry.intersects
  /\ ~geometry.contains

(***************************************************************************)
(* RigidBody::applyForce.                                                  *)
(***************************************************************************)
\* Integer division rounding towards zero, as the language divides.
Quotient(n, d) ==
  IF (n >= 0) = (d > 0) THEN Abs(n) \div Abs(d) ELSE 0 - (Abs(n) \div Abs(d))

\* Number / Number: the dividend is widened and shifted, the quotient
\* narrowed to 16 bits.  Division by zero is undefined: any value may result.
DivOutcomes(a, b) ==
  IF b = 0
    THEN MinInternal .. MaxInternal
    ELSE {Wrap16(Quotient(a * Scale, b))}

\* Vector2 / Number, component by component.
VecDivOutcomes(v, n) ==
  { Vec(x, y) : x \in DivOutcomes(v.x, n), y \in DivOutcomes(v.y, n) }

\* velocity += force / mass
ApplyForceOutcomes(object, force) ==
  { [object EXCEPT !.velocity = VecAdd(@, acceleration)] :
      acceleration \in VecDivOutcomes(force, object.mass) }

\* Forces to probe applyForce with.
ProbeForces ==
  { Vec(-57, 63), Vec(Neg(Epsilon), inputForce) }

\* C20: every body's mass is the 1 it was constructed with, hence positive,
\* whatever the controller, the shake and the simulation step have done, and
\* applyForce(f) on the body the loop stands at gives the one outcome
\* velocity + f.
C20_MassNeverZero ==
  /\ \A i \in Indices : objects[i].mass > 0 /\ objects[i].mass = FromInt(1)
  /\ \A force \in ProbeForces :
       \A result \in ApplyForceOutcomes(objects[index], force) :
         /\ result.velocity.x = Wrap16(objects[index].velocity.x + force.x)
         /\ result.velocity.y = Wrap16(objects[index].velocity.y + force.y)
         /\ result.position = objects[index].position
         /\ result.mass = objects[index].mass

\* A shake, then a frame of directional force, and the simulation step of
\* that frame have acted on the bodies.
C20_Witness ==
  /\ pc = "render"
  /\ previousButtonState = {"B", "A"}
  /\ currentButtonState = {"LEFT", "RIGHT", "DOWN"}
  /\ objects # entry
  /\ \A i \in Indices : objects[i].mass = FromInt(1)

(***************************************************************************)
(* Properties of the shake, of the walls and of friction.                  *)
(***************************************************************************)
\* A whole pixel inside [0, limit).
WholePixel(n, limit) ==
  /\ n % Scale = 0
  /\ 0 <= n
  /\ n <= FromInt(limit - 1)

\* An offset in [-8, 8).
ShakeOffset(n) == FromInt(-8) <= n /\ n < FromInt(8)

\* C21: a shake (B held, A just pressed) gives every body a position of
\* whole pixels with 0 <= x <= 127 and 0 <= y <= 63 and adds an offset in
\* [-8, 8) to velocity.y; with gravity disabled it adds such an offset to
\* velocity.x too, with gravity enabled it leaves every velocity.x unchanged.
C21_ShakePerturbs ==
  [][ (/\ pc = "updateInput"
       /\ Pressed(PolledNow, "B")
       /\ JustPressed(PolledNow, "A")) =>
        \A i \in Indices :
          /\ WholePixel(objects'[i].position.x, ScreenWidth)
          /\ WholePixel(objects'[i].position.y, ScreenHeight)
          /\ ShakeOffset(objects'[i].velocity.y - objects[i].velocity.y)
          /\ IF gravityEnabled
               THEN objects'[i].velocity.x = objects[i].velocity.x
               ELSE ShakeOffset(objects'[i].velocity.x
                                  - objects[i].velocity.x) ]_vars

\* Gravity was switched on in the frame before and the bodies are shaken
\* now: a body that setup threw upward at -8.0 has been thrown upward again.
C21_Witness ==
  /\ pc = "gravity"
  /\ previousButtonState = {"B", "DOWN"}
  /\ currentButtonState = {"B", "A"}
  /\ gravityEnabled
  /\ \E i \in Indices :
       /\ objects[i].velocity.y < FromInt(-8)
       /\ objects[i].position.x = FromInt(ScreenWidth - 1)

\* C22: the horizontal collision sub-step leaves a body it clamped to the
\* left bound with velocity.x >= 0 and a body it clamped to the right bound
\* with velocity.x <= 0.
C22_BounceSendsBack ==
  [][ pc = "horizontal" =>
        /\ objects[index].position.x < screenLeft =>
             objects'[index].velocity.x >= 0
        /\ objects[index].position.x > screenRight =>
             objects'[index].velocity.x <= 0 ]_vars

\* C23: with gravity disabled and no input, from some tick on every body
\* has velocity (0, 0) at every point of the tick and ends the tick where it
\* started it.
C23_FrictionStops ==
  <>[](~gravityEnabled =>
         \A i \in Indices :
           /\ objects[i].velocity = Vec(0, 0)
           /\ pc = "render" => objects[i].position = entry[i].position)

\* Every body is at rest after a tick without gravity, one of them a little
\* off the left wall, where no body starts: it drifted to the wall with a
\* negative velocity that friction could not reduce, was turned round and
\* then slowed to a stop.
C23_Witness ==
  /\ ~gravityEnabled
  /\ pc = "render"
  /\ objects = entry
  /\ \A i \in Indices : objects[i].velocity = Vec(0, 0)
  /\ \E i \in Indices :
       /\ screenLeft < objects[i].position.x
       /\ objects[i].position.x < FromInt(4)

(***************************************************************************)
(* The simulation step of the earlier Game class, with its bounds written  *)
(* as arduboy.width() - 8 and arduboy.height() - 8 at each use.            *)
(***************************************************************************)
legacyRight == FromInt(ScreenWidth - BodySize)
legacyBottom == FromInt(ScreenHeight - BodySize)

LegacyGravity(object) ==
  IF gravityEnabled
    THEN [object EXCEPT !.velocity = VecAdd(@, gravitationalForce)]
    ELSE object

LegacyFriction(object) ==
  IF gravityEnabled
    THEN [object EXCEPT !.velocity.x = Mul(@, coefficientOfFriction)]
    ELSE [object EXCEPT !.velocity = VecScale(@, coefficientOfFriction)]

LegacyWalls(object) ==
  LET left == IF object.position.x < FromInt(0)
                THEN [object EXCEPT !.position.x = FromInt(0),
                                    !.velocity.x = Neg(@)]
                ELSE object
  IN IF left.position.x > legacyRight
       THEN [left EXCEPT !.position.x = legacyRight, !.velocity.x = Neg(@)]
       ELSE left

\* Mutant of LegacyRestitute: the product is negated, not the velocity.
LegacyRestituteProductNegated(object) ==
  IF object.velocity.y > restitutionThreshold
    THEN [object EXCEPT !.velocity.y = Neg(Mul(@, coefficientOfRestitution))]
    ELSE [object EXCEPT !.velocity.y = 0]

\* velocity.y = -velocity.y * coefficientOfRestitution, or 0.
LegacyRestitute(object) ==
  IF object.velocity.y > restitutionThreshold
    THEN [object EXCEPT !.velocity.y = Mul(Neg(@), coefficientOfRestitution)]
    ELSE [object EXCEPT !.velocity.y = 0]

LegacyFloorAndCeiling(object) ==
  IF gravityEnabled
    THEN LET top == IF object.position.y < FromInt(0)
                      THEN LegacyRestitute(
                             [object EXCEPT !.position.y = FromInt(0)])
                      ELSE object
         IN IF top.position.y > legacyBottom
              THEN LegacyRestitute(
                     [top EXCEPT !.position.y = legacyBottom])
              ELSE top
    ELSE LET top == IF object.position.y < FromInt(0)
                      THEN [object EXCEPT !.position.y = FromInt(0),
                                          !.velocity.y = Neg(@)]
                      ELSE object
         IN IF top.position.y > legacyBottom
              THEN [top EXCEPT !.position.y = legacyBottom,
                               !.velocity.y = Neg(@)]
              ELSE top

LegacyIntegrate(object) ==
  [object EXCEPT !.position = PointAdd(@, object.velocity)]

\* One body's iteration of the earlier simulatePhysics.
LegacySimulateBody(object) ==
  LegacyIntegrate(LegacyFloorAndCeiling(LegacyWalls(
    LegacyFriction(LegacyGravity(object)))))

\* C24: at the end of every tick every body is where the simulation step of
\* the earlier Game class puts it from the same entry state, gravityEnabled
\* and gravitationalForce.
C24_VersionsAgree ==
  pc = "render" =>
    \A i \in Indices :
      /\ objects[i].position = LegacySimulateBody(entry[i]).position
      /\ objects[i].velocity = LegacySimulateBody(entry[i]).velocity

\* A tick in which a body below the bottom bound took the restitution
\* branch, with a speed whose product with the coefficient is not a whole
\* number of eighths; another body was clamped at the right bound.
C24_Witness ==
  /\ pc = "render"
  /\ gravityEnabled
  /\ \E i \in Indices :
       /\ entry[i].position.y > screenBottom
       /\ objects[i].velocity.y < 0
       /\ (Add(entry[i].velocity.y, gravitationalForce.y)
             * coefficientOfRestitution) % Scale # 0
  /\ \E j \in Indices :
       /\ entry[j].position.x > screenRight
       /\ objects[j].position.x # entry[j].position.x

====
